---- MODULE Spec2Model ----
(***************************************************************************)
(* Referral & allocation engine of flask_referral_app.py: the ref_users,   *)
(* referrals, reserved_accounts and blacklist relations, the two signup    *)
(* flows (form-supplied username; username auto-assigned from the pool),   *)
(* bulk creation and the referral ledger.                                  *)
(*                                                                         *)
(* A text value is a sequence of one-character strings, so that strip,     *)
(* lower and split can be computed; SQL NULL / Python None is NULL.        *)
(***************************************************************************)
EXTENDS Integers, Sequences, FiniteSets, TLC

\* ------------------------------------------------------------------ bounds
\* ids the ref_users sequence may hand out
MaxSerial == 3
\* reserved accounts provisioned in the pool
MaxPool == 2
\* distinct codes the random source is sampled at
NCodeChars == 2
\* lines of one bulk-add request
MaxBatch == 2
\* record_referral calls of the ledger specification
MaxCalls == 3

\* ------------------------------------------------------------------ text
NULL == <<"NULL">>
NULLID == 0
CodeLen == 8

Procs == {"p1", "p2"}

UpperChars == <<"A","B","C","D","E","F","G","H","I","J","K","L","M",
                "N","O","P","Q","R","S","T","U","V","W","X","Y","Z">>
LowerChars == <<"a","b","c","d","e","f","g","h","i","j","k","l","m",
                "n","o","p","q","r","s","t","u","v","w","x","y","z">>
DigitChars == <<"0","1","2","3","4","5","6","7","8","9">>
Whitespace == {" ", "\t", "\n"}

Range(s) == {s[i] : i \in DOMAIN s}

\* string.ascii_uppercase + string.digits
Alphabet == Range(UpperChars) \cup Range(DigitChars)

\* the characters gen_code is sampled at: A, 0, B, 1, ...
SampleChar(k) == IF k % 2 = 1 THEN UpperChars[(k + 1) \div 2] ELSE DigitChars[k \div 2]

\* gen_code(n): n draws of secrets.choice(alphabet), sampled at the codes
\* made of one repeated character
gen_code(n) == {[i \in 1..n |-> SampleChar(k)] : k \in 1..NCodeChars}

\* Python truthiness of an Optional[str]: None and "" are falsy
Truthy(s) == s # NULL /\ s # <<>>

\* s or ""
OrEmpty(s) == IF Truthy(s) THEN s ELSE <<>>

\* str.lower() on one character
LowerChar(c) ==
    IF \E i \in DOMAIN UpperChars : UpperChars[i] = c
    THEN LowerChars[CHOOSE i \in DOMAIN UpperChars : UpperChars[i] = c]
    ELSE c

\* str.split() with no argument: the maximal runs of non-whitespace
RECURSIVE SplitWords(_, _, _)
SplitWords(s, cur, acc) ==
    IF s = <<>>
    THEN IF cur = <<>> THEN acc ELSE Append(acc, cur)
    ELSE IF Head(s) \in Whitespace
         THEN SplitWords(Tail(s), <<>>, IF cur = <<>> THEN acc ELSE Append(acc, cur))
         ELSE SplitWords(Tail(s), Append(cur, Head(s)), acc)

\* " ".join(words)
RECURSIVE JoinWords(_)
JoinWords(ws) ==
    IF ws = <<>> THEN <<>>
    ELSE IF Len(ws) = 1 THEN ws[1]
    ELSE ws[1] \o <<" ">> \o JoinWords(Tail(ws))

\* normalize(s): None stays None; otherwise strip, lower, collapse whitespace
normalize(s) ==
    IF s = NULL THEN NULL
    ELSE JoinWords(SplitWords([i \in DOMAIN s |-> LowerChar(s[i])], <<>>, <<>>))

\* ------------------------------------------------------------------ inputs
\* usernames typed into the signup form or a bulk-add line
FormUsernames == {<<"a">>, <<"b">>}
\* phones typed into the form: none, or one that normalizes to "p"
FormPhones == {NULL, <<" ", "P">>}
FormReferralCodes == {NULL, <<>>, [i \in 1..CodeLen |-> SampleChar(1)]}
FormReferralUsernames == {NULL, <<"a">>}
FormCurrencies == {NULL, <<"USD">>}

\* request.form of the username-supplying signup (lines 590-596).  The
\* referral fields cover: none, code only, code and username, empty code and
\* username.  A referral code is typed by the signup of b, and the
\* blacklisted phone comes with a referral code.
SignupForms ==
    {f \in [username : FormUsernames, first_name : {NULL}, last_name : {NULL},
            phone : FormPhones, telegram_id : {NULL}, currency : {NULL},
            ref_code : FormReferralCodes, ref_user : FormReferralUsernames] :
       /\ f.ref_code = <<>> => f.ref_user # NULL
       /\ f.ref_code = NULL => f.ref_user = NULL
       /\ Truthy(f.ref_code) => f.username = <<"b">>
       /\ f.phone # NULL => (Truthy(f.ref_code) /\ f.ref_user = NULL)}

\* request.form of the auto-username signup (lines 833-841); the blacklisted
\* phone comes with no other field
AutoForms ==
    {f \in [username : {NULL}, first_name : {NULL}, last_name : {NULL},
            phone : FormPhones, telegram_id : {NULL}, currency : FormCurrencies,
            ref_code : FormReferralCodes \ {<<>>}, ref_user : FormReferralUsernames] :
       f.phone # NULL => (f.currency = NULL /\ f.ref_code = NULL /\ f.ref_user = NULL)}

NoForm ==
    [username |-> NULL, first_name |-> NULL, last_name |-> NULL, phone |-> NULL,
     telegram_id |-> NULL, currency |-> NULL, ref_code |-> NULL, ref_user |-> NULL]

\* the reserved accounts external provisioning has inserted: r1 (USD), r2 (KWD), ...
PoolRow(i) ==
    [id |-> i, username |-> <<"r", DigitChars[i + 1]>>,
     currency |-> IF i % 2 = 1 THEN <<"USD">> ELSE <<"KWD">>,
     is_assigned |-> 0, assigned_user_id |-> NULLID]

\* the blacklist rows the administrator keeps
BlacklistRows ==
    {[kind |-> "phone", value |-> <<"p">>, reason |-> <<"fraud">>, active |-> 1],
     [kind |-> "phone", value |-> <<"q">>, reason |-> NULL, active |-> 0],
     [kind |-> "name", value |-> <<"p">>, reason |-> NULL, active |-> 1]}

\* ------------------------------------------------------------------ state
VARIABLES
    users,       \* committed rows of ref_users
    referrals,   \* committed rows of referrals
    reserved,    \* committed rows of reserved_accounts
    blacklist,   \* rows of blacklist
    seq,         \* the SERIAL sequences: next id of ref_users and of referrals
    txn,         \* per request: the ref_users rows inserted and not yet committed
    req,         \* per request: position and locals of the signup handler
    bulk         \* the bulk-add request: lines typed, usernames left, added, skipped

vars == <<users, referrals, reserved, blacklist, seq, txn, req, bulk>>

\* a request no handler is running
IdleReq ==
    [pc |-> "idle", form |-> NoForm, referred_by_id |-> NULLID, alloc |-> NULL,
     new_user |-> NULLID, error |-> "none", reason |-> NULL,
     code_hit |-> NULLID, consulted |-> FALSE, collisions |-> 0,
     ledger_error |-> FALSE, screened |-> FALSE,
     identifier |-> NULL, target |-> NULLID]

IdleBulk ==
    [pc |-> "idle", lines |-> <<>>, usernames |-> <<>>, added |-> <<>>, skipped |-> <<>>]

\* the state after init_db() and the provisioning of n reserved accounts
InitWith(n) ==
    /\ users = {}
    /\ referrals = {}
    /\ reserved = {PoolRow(i) : i \in 1..n}
    /\ blacklist = BlacklistRows
    /\ seq = [ref_users |-> 1, referrals |-> 1]
    /\ txn = [p \in Procs |-> {}]
    /\ req = [p \in Procs |-> IdleReq]
    /\ bulk = IdleBulk

Init == InitWith(MaxPool)

InitAuto == \E n \in 1..MaxPool : InitWith(n)

\* ------------------------------------------------------------------ storage
\* SELECT * FROM ref_users WHERE code=%s
get_user_by_code(us, code) == {u \in us : u.code = code}

\* SELECT * FROM ref_users WHERE username=%s
get_user_by_username(us, username) == {u \in us : u.username = username}

\* the one row of a fetchone() result
TheRow(rows) == CHOOSE r \in rows : TRUE

\* a sequence read that hands out the id issued last (currval for nextval)
NextvalStale(s) == IF s > 1 THEN s - 1 ELSE s

\* nextval of a SERIAL column, s being the next value of its sequence
Nextval(s) == s

\* the UNIQUE constraint an INSERT INTO ref_users violates, username first
\* (the unique indexes are checked in creation order: username, then code)
UniqueViolationNoCode(us, row) ==
    IF \E u \in us : u.username = row.username THEN "username" ELSE "none"

UniqueViolationNoUsername(us, row) ==
    IF \E u \in us : u.code = row.code THEN "code" ELSE "none"

UniqueViolation(us, row) ==
    IF \E u \in us : u.username = row.username THEN "username"
    ELSE IF \E u \in us : u.code = row.code THEN "code"
    ELSE "none"

\* rows other requests have inserted and not committed: an INSERT that
\* conflicts with one of them waits for that transaction to end
Uncommitted(p) == UNION {txn[q] : q \in Procs \ {p}}

MustWait(p, row) ==
    \E u \in Uncommitted(p) : u.username = row.username \/ u.code = row.code

UserRow(id, username, code, first_name, last_name, phone, telegram_id, ref) ==
    [id |-> id, username |-> username, code |-> code, first_name |-> first_name,
     last_name |-> last_name, phone |-> phone, telegram_id |-> telegram_id,
     referred_by_user_id |-> ref]

\* record_referral: the INSERT raises on a missing referenced user (the two
\* FOREIGN KEYs) or on a storage fault; the except branch rolls back and returns
RecordRaises(us, referrer_id, referred_id, fault) ==
    \/ fault
    \/ ~ \E u \in us : u.id = referrer_id
    \/ ~ \E u \in us : u.id = referred_id

\* a ledger with neither the UNIQUE constraint nor ON CONFLICT DO NOTHING
record_referral_always(refs, id, us, referrer_id, referred_id, fault) ==
    IF RecordRaises(us, referrer_id, referred_id, fault) THEN refs
    ELSE refs \cup {[id |-> id, referrer_user_id |-> referrer_id,
                     referred_user_id |-> referred_id]}

\* a ledger that stores the pair the wrong way round
record_referral_swapped(refs, id, us, referrer_id, referred_id, fault) ==
    IF RecordRaises(us, referrer_id, referred_id, fault) THEN refs
    ELSE IF \E e \in refs : /\ e.referrer_user_id = referred_id
                            /\ e.referred_user_id = referrer_id
         THEN refs
         ELSE refs \cup {[id |-> id, referrer_user_id |-> referred_id,
                          referred_user_id |-> referrer_id]}

\* record_referral: INSERT INTO referrals ... ON CONFLICT DO NOTHING; commit
record_referral(refs, id, us, referrer_id, referred_id, fault) ==
    IF RecordRaises(us, referrer_id, referred_id, fault) THEN refs
    ELSE IF \E e \in refs : /\ e.referrer_user_id = referrer_id
                            /\ e.referred_user_id = referred_id
         THEN refs
         ELSE refs \cup {[id |-> id, referrer_user_id |-> referrer_id,
                          referred_user_id |-> referred_id]}

\* which branch a record_referral call took; every one returns None
RecordOutcome(refs, us, referrer_id, referred_id, fault) ==
    IF RecordRaises(us, referrer_id, referred_id, fault) THEN "rolled_back"
    ELSE IF \E e \in refs : /\ e.referrer_user_id = referrer_id
                            /\ e.referred_user_id = referred_id
         THEN "ignored"
         ELSE "inserted"

\* a checks list that screens the name first
BlacklistChecksNameFirst(f) ==
    << <<"name", IF Truthy(f.first_name) \/ Truthy(f.last_name)
                 THEN normalize(OrEmpty(f.first_name) \o <<" ">> \o OrEmpty(f.last_name))
                 ELSE NULL>>,
       <<"phone", normalize(f.phone)>>,
       <<"telegram_id", normalize(f.telegram_id)>>,
       <<"referral_code", normalize(f.ref_code)>>,
       <<"referral_username", normalize(f.ref_user)>> >>

\* a checks list that compares the phone as typed
BlacklistChecksRawPhone(f) ==
    << <<"phone", f.phone>>,
       <<"telegram_id", normalize(f.telegram_id)>>,
       <<"referral_code", normalize(f.ref_code)>>,
       <<"referral_username", normalize(f.ref_user)>>,
       <<"name", IF Truthy(f.first_name) \/ Truthy(f.last_name)
                 THEN normalize(OrEmpty(f.first_name) \o <<" ">> \o OrEmpty(f.last_name))
                 ELSE NULL>> >>

\* the checks list of check_blacklist, in its order
BlacklistChecks(f) ==
    << <<"phone", normalize(f.phone)>>,
       <<"telegram_id", normalize(f.telegram_id)>>,
       <<"referral_code", normalize(f.ref_code)>>,
       <<"referral_username", normalize(f.ref_user)>>,
       <<"name", IF Truthy(f.first_name) \/ Truthy(f.last_name)
                 THEN normalize(OrEmpty(f.first_name) \o <<" ">> \o OrEmpty(f.last_name))
                 ELSE NULL>> >>

\* the same query without AND active=1
BlacklistMatchesInactive(bl, kind, value) ==
    {b \in bl : b.kind = kind /\ b.value = value}

\* SELECT reason FROM blacklist WHERE kind=%s AND value=%s AND active=1
BlacklistMatches(bl, kind, value) ==
    {b \in bl : b.kind = kind /\ b.value = value /\ b.active = 1}

\* the loop of check_blacklist from check i on: the values it can return
\* (LIMIT 1 without ORDER BY returns any one of the matching rows)
RECURSIVE ScreenFrom(_, _, _)
ScreenFrom(bl, checks, i) ==
    IF i > Len(checks) THEN {NULL}
    ELSE LET kind == checks[i][1]
             value == checks[i][2]
             rows == BlacklistMatches(bl, kind, value)
         IN  IF ~Truthy(value) \/ rows = {}
             THEN ScreenFrom(bl, checks, i + 1)
             ELSE {IF Truthy(b.reason) THEN b.reason
                   ELSE <<"Blocked by blacklist: ", kind>> : b \in rows}

check_blacklist(bl, f) == ScreenFrom(bl, BlacklistChecks(f), 1)

\* the same query with ORDER BY id DESC
NewestUnassigned(rows) ==
    IF rows = {} THEN NULL
    ELSE (CHOOSE r \in rows : \A o \in rows : r.id >= o.id).username

\* ... WHERE is_assigned=0 [AND currency=%s] ORDER BY id ASC LIMIT 1
OldestUnassigned(rows) ==
    IF rows = {} THEN NULL
    ELSE (CHOOSE r \in rows : \A o \in rows : r.id <= o.id).username

\* an allocator without the second query: no fallback to any currency
allocate_no_fallback(res, currency) ==
    LET free == {r \in res : r.is_assigned = 0}
        same == {r \in free : r.currency = currency}
    IN  IF Truthy(currency) THEN OldestUnassigned(same) ELSE OldestUnassigned(free)

\* allocate_reserved_username: a plain SELECT, nothing is locked or written
allocate_reserved_username(res, currency) ==
    LET free == {r \in res : r.is_assigned = 0}
        same == {r \in free : r.currency = currency}
    IN  IF Truthy(currency) /\ same # {}
        THEN OldestUnassigned(same)
        ELSE OldestUnassigned(free)

\* an UPDATE that sets the flag and leaves assigned_user_id alone
mark_flag_only(res, username, user_id) ==
    {IF r.username = username THEN [r EXCEPT !.is_assigned = 1] ELSE r : r \in res}

\* an UPDATE without its WHERE clause
mark_every_row(res, username, user_id) ==
    {[r EXCEPT !.is_assigned = 1, !.assigned_user_id = user_id] : r \in res}

\* mark_reserved_assigned: UPDATE ... WHERE username=%s, whatever is_assigned is
mark_reserved_assigned(res, username, user_id) ==
    {IF r.username = username
     THEN [r EXCEPT !.is_assigned = 1, !.assigned_user_id = user_id]
     ELSE r : r \in res}

\* a code lookup that credits some user when the code matches none
ResolveByCodeAny(us, ref_code) ==
    IF Truthy(ref_code) /\ us # {}
    THEN IF get_user_by_code(us, ref_code) # {}
         THEN TheRow(get_user_by_code(us, ref_code)).id
         ELSE TheRow(us).id
    ELSE NULLID

\* lines 600-604: the code lookup
ResolveByCode(us, ref_code) ==
    IF Truthy(ref_code) /\ get_user_by_code(us, ref_code) # {}
    THEN TheRow(get_user_by_code(us, ref_code)).id
    ELSE NULLID

\* line 605: whether get_user_by_username is called
ConsultsUsername(referred_by_id, ref_user) ==
    referred_by_id = NULLID /\ Truthy(ref_user)

\* a resolver in which a matching username overrides the code
ResolveByUsernameAlways(us, referred_by_id, ref_user) ==
    IF Truthy(ref_user) /\ get_user_by_username(us, ref_user) # {}
    THEN TheRow(get_user_by_username(us, ref_user)).id
    ELSE referred_by_id

\* lines 605-608: the username lookup
ResolveByUsername(us, referred_by_id, ref_user) ==
    IF ConsultsUsername(referred_by_id, ref_user)
       /\ get_user_by_username(us, ref_user) # {}
    THEN TheRow(get_user_by_username(us, ref_user)).id
    ELSE referred_by_id

\* ------------------------------------------------------------------ signup
\* signup(), lines 587-640: the form supplies the username
Fail(p, kind) == [req EXCEPT ![p].pc = "failed", ![p].error = kind]

\* lines 589-604: a POST arrives, the form is read and the code is looked up
SignupPost(p) ==
    /\ req[p].pc = "idle"
    /\ seq.ref_users <= MaxSerial
    /\ \E f \in SignupForms :
         LET id == ResolveByCode(users, f.ref_code)
         IN  req' = [req EXCEPT ![p] = [IdleReq EXCEPT !.pc = "resolve_user",
                                                       !.form = f,
                                                       !.referred_by_id = id,
                                                       !.code_hit = id]]
    /\ UNCHANGED <<users, referrals, reserved, blacklist, seq, txn, bulk>>

\* lines 605-608
SignupResolveUser(p) ==
    /\ req[p].pc = "resolve_user"
    /\ req' = [req EXCEPT
                 ![p].pc = "insert",
                 ![p].consulted = ConsultsUsername(req[p].referred_by_id,
                                                   req[p].form.ref_user),
                 ![p].referred_by_id = ResolveByUsername(users, req[p].referred_by_id,
                                                         req[p].form.ref_user)]
    /\ UNCHANGED <<users, referrals, reserved, blacklist, seq, txn, bulk>>

\* lines 613-629 and the except branch 636-638: one generated code, one INSERT,
\* commit; a constraint violation rolls back and is flashed to the caller
SignupInsert(p) ==
    /\ req[p].pc = "insert"
    /\ seq.ref_users <= MaxSerial
    /\ \E user_code \in gen_code(CodeLen) :
         LET f == req[p].form
             row == UserRow(Nextval(seq.ref_users), f.username, user_code,
                            OrEmpty(f.first_name), OrEmpty(f.last_name), f.phone,
                            f.telegram_id, req[p].referred_by_id)
             violated == UniqueViolation(users, row)
         IN  /\ ~MustWait(p, row)
             /\ IF violated = "none"
                THEN /\ users' = users \cup {row}
                     /\ req' = [req EXCEPT
                                  ![p].new_user = row.id,
                                  ![p].pc = IF req[p].referred_by_id # NULLID
                                               /\ req[p].referred_by_id # row.id
                                            THEN "ledger" ELSE "done"]
                ELSE /\ users' = users
                     /\ req' = [req EXCEPT
                                  ![p].pc = "failed",
                                  ![p].collisions = IF violated = "code" THEN 1 ELSE 0,
                                  ![p].error = IF violated = "username"
                                               THEN "DuplicateUsername"
                                               ELSE "DuplicateCode"]
    /\ seq' = [seq EXCEPT !.ref_users = @ + 1]
    /\ UNCHANGED <<referrals, reserved, blacklist, txn, bulk>>

\* one call record_referral(referrer_id, referred_id) of a signup
LedgerStep(p, next) ==
    \E fault \in BOOLEAN :
      LET r == req[p].referred_by_id
          u == req[p].new_user
          outcome == RecordOutcome(referrals, users, r, u, fault)
      IN  /\ referrals' = record_referral(referrals, seq.referrals, users, r, u, fault)
          /\ seq' = [seq EXCEPT !.referrals = @ + 1]
          /\ req' = [req EXCEPT ![p].pc = next,
                                ![p].ledger_error = (outcome = "rolled_back")]

\* lines 631-635: the edge is recorded after the user row is committed
SignupRecordReferral(p) ==
    /\ req[p].pc = "ledger"
    /\ LedgerStep(p, "done")
    /\ UNCHANGED <<users, reserved, blacklist, txn, bulk>>

\* the response is sent (redirect or the form again with the flashed message)
Respond(p) ==
    /\ req[p].pc \in {"done", "failed"}
    /\ req' = [req EXCEPT ![p] = IdleReq]
    /\ UNCHANGED <<users, referrals, reserved, blacklist, seq, txn, bulk>>

\* ------------------------------------------------------------------ auto signup
\* signup(), lines 829-846, calls create_user_auto_username, which the file
\* does not define: its steps follow the orchestrator of the specification
\* (screen, resolve, allocate, assign code, persist, ledger) and call the
\* helpers the file does define.

\* insert attempts of one signup before CodeAllocationExhausted
MaxCodeRetries == 2

\* lines 831-841: a POST arrives and the form is read
AutoPost(p) ==
    /\ req[p].pc = "idle"
    /\ seq.ref_users <= MaxSerial
    /\ \E f \in AutoForms :
         req' = [req EXCEPT ![p] = [IdleReq EXCEPT !.pc = "screen", !.form = f]]
    /\ UNCHANGED <<users, referrals, reserved, blacklist, seq, txn, bulk>>

\* Received -> Screened: check_blacklist on the intake attributes
AutoScreen(p) ==
    /\ req[p].pc = "screen"
    /\ \E reason \in check_blacklist(blacklist, req[p].form) :
         req' = IF reason # NULL
                THEN [req EXCEPT ![p].pc = "failed", ![p].error = "Blacklisted",
                                 ![p].reason = reason]
                ELSE [req EXCEPT ![p].pc = "resolve", ![p].screened = TRUE]
    /\ UNCHANGED <<users, referrals, reserved, blacklist, seq, txn, bulk>>

\* Screened -> ReferrerResolved: code first, then username
AutoResolve(p) ==
    /\ req[p].pc = "resolve"
    /\ LET f == req[p].form
           id == ResolveByCode(users, f.ref_code)
       IN  req' = [req EXCEPT
                     ![p].pc = "allocate",
                     ![p].code_hit = id,
                     ![p].consulted = ConsultsUsername(id, f.ref_user),
                     ![p].referred_by_id = ResolveByUsername(users, id, f.ref_user)]
    /\ UNCHANGED <<users, referrals, reserved, blacklist, seq, txn, bulk>>

\* ReferrerResolved -> Allocated: allocate_reserved_username(preferred_currency)
AutoAllocate(p) ==
    /\ req[p].pc = "allocate"
    /\ LET username == allocate_reserved_username(reserved, req[p].form.currency)
       IN  req' = IF username = NULL
                  THEN Fail(p, "PoolExhausted")
                  ELSE [req EXCEPT ![p].pc = "auto_insert", ![p].alloc = username]
    /\ UNCHANGED <<users, referrals, reserved, blacklist, seq, txn, bulk>>

\* Allocated -> CodeAssigned -> Persisted: one insert attempt with a fresh code;
\* the row stays uncommitted until mark_reserved_assigned commits
AutoInsert(p) ==
    /\ req[p].pc = "auto_insert"
    /\ seq.ref_users <= MaxSerial
    /\ \E user_code \in gen_code(CodeLen) :
         LET f == req[p].form
             row == UserRow(Nextval(seq.ref_users), req[p].alloc, user_code,
                            f.first_name, f.last_name, f.phone, f.telegram_id,
                            req[p].referred_by_id)
             violated == UniqueViolation(users, row)
         IN  /\ ~MustWait(p, row)
             /\ IF violated = "none"
                THEN /\ txn' = [txn EXCEPT ![p] = {row}]
                     /\ req' = [req EXCEPT ![p].pc = "mark", ![p].new_user = row.id]
                ELSE /\ txn' = txn
                     /\ req' =
                          IF violated = "username" THEN Fail(p, "DuplicateUsername")
                          ELSE IF req[p].collisions + 1 >= MaxCodeRetries
                          THEN [req EXCEPT ![p].pc = "failed",
                                           ![p].collisions = @ + 1,
                                           ![p].error = "CodeAllocationExhausted"]
                          ELSE [req EXCEPT ![p].collisions = @ + 1]
    /\ seq' = [seq EXCEPT !.ref_users = @ + 1]
    /\ UNCHANGED <<users, referrals, reserved, blacklist, bulk>>

\* mark_reserved_assigned(username, user_id), lines 191-198: the UPDATE and
\* db.commit(), which commits the inserted user row with it
AutoMark(p) ==
    /\ req[p].pc = "mark"
    /\ reserved' = mark_reserved_assigned(reserved, req[p].alloc, req[p].new_user)
    /\ users' = users \cup txn[p]
    /\ txn' = [txn EXCEPT ![p] = {}]
    /\ req' = [req EXCEPT
                 ![p].pc = IF req[p].referred_by_id # NULLID
                              /\ req[p].referred_by_id # req[p].new_user
                           THEN "auto_ledger" ELSE "done"]
    /\ UNCHANGED <<referrals, blacklist, seq, bulk>>

\* Persisted -> LedgerUpdated: record_referral, in a transaction of its own
AutoRecordReferral(p) ==
    /\ req[p].pc = "auto_ledger"
    /\ LedgerStep(p, "done")
    /\ UNCHANGED <<users, reserved, blacklist, txn, bulk>>

\* delete_user(code), lines 881-892: get_user_by_code, abort(404) when there
\* is no such user; then db.execute(...) on the psycopg2 connection of line 33,
\* which has no execute method: line 887 raises AttributeError before any
\* statement is sent, and nothing is written
DeleteUser(p) ==
    /\ req[p].pc = "idle"
    /\ \E code \in gen_code(CodeLen) :
         LET rows == get_user_by_code(users, code)
         IN  req' = [req EXCEPT ![p] =
                       IF rows = {}
                       THEN [IdleReq EXCEPT !.pc = "failed", !.error = "NotFound"]
                       ELSE [IdleReq EXCEPT !.pc = "failed", !.error = "AttributeError",
                                            !.code_hit = TheRow(rows).id]]
    /\ UNCHANGED <<users, referrals, reserved, blacklist, seq, txn, bulk>>

\* ------------------------------------------------------------------ profile
\* a lookup that falls back to the first user when nothing matches
find_user_or_first(us, identifier) ==
    IF \E u \in us : u.code = identifier \/ u.username = identifier
    THEN {u \in us : u.code = identifier \/ u.username = identifier}
    ELSE {u \in us : \A o \in us : u.id <= o.id}

\* SELECT * FROM ref_users WHERE code=%s OR username=%s LIMIT 1 (line 655):
\* the rows fetchone() may return
find_user(us, identifier) ==
    {u \in us : u.code = identifier \/ u.username = identifier}

\* an UPDATE that has lost its WHERE clause
update_every_profile(us, id, f) ==
    {[u EXCEPT !.first_name = f.first_name, !.last_name = f.last_name,
               !.phone = f.phone, !.telegram_id = f.telegram_id] : u \in us}

\* UPDATE ref_users SET first_name=%s, last_name=%s, phone=%s, telegram_id=%s
\* WHERE id=%s (lines 660-664 and 788-810)
update_profile(us, id, f) ==
    {IF u.id = id
     THEN [u EXCEPT !.first_name = f.first_name, !.last_name = f.last_name,
                    !.phone = f.phone, !.telegram_id = f.telegram_id]
     ELSE u : u \in us}

\* the profile fields a form carries: none, all, some
ProfileForms ==
    {[NoForm EXCEPT !.first_name = n[1], !.last_name = n[2], !.phone = n[3],
                    !.telegram_id = n[4], !.currency = n[5]] :
       n \in {<<NULL, NULL, NULL, NULL, NULL>>,
              <<<<"x">>, <<"y">>, <<"7">>, <<"t">>, <<"KWD">>>>,
              <<<<"x">>, NULL, <<"7">>, NULL, NULL>>}}

\* fill_user(), lines 645-657: the form is read and the user is looked up by
\* code or username; no row flashes "User not found"
FillLookup(p) ==
    /\ req[p].pc = "idle"
    /\ \E identifier \in {u.code : u \in users} \cup {u.username : u \in users}
                         \cup {<<"z">>},
          f \in ProfileForms :
         LET rows == find_user(users, identifier)
         IN  \/ /\ rows = {}
                /\ req' = [req EXCEPT ![p] =
                             [IdleReq EXCEPT !.pc = "failed", !.error = "NotFound",
                                             !.identifier = identifier, !.form = f]]
             \/ \E user \in rows :
                  req' = [req EXCEPT ![p] =
                            [IdleReq EXCEPT !.pc = "update", !.identifier = identifier,
                                            !.form = f, !.target = user.id]]
    /\ UNCHANGED <<users, referrals, reserved, blacklist, seq, txn, bulk>>

\* edit_user(code), lines 775-787 of the HEAD side: the user is looked up by
\* code, abort(404) when there is none
EditLookup(p) ==
    /\ req[p].pc = "idle"
    /\ \E code \in {u.code : u \in users} \cup {<<"z">>}, f \in ProfileForms :
         LET rows == get_user_by_code(users, code)
         IN  req' = [req EXCEPT ![p] =
                       IF rows = {}
                       THEN [IdleReq EXCEPT !.pc = "failed", !.error = "NotFound",
                                            !.identifier = code, !.form = f]
                       ELSE [IdleReq EXCEPT !.pc = "update", !.identifier = code,
                                            !.form = f, !.target = TheRow(rows).id]]
    /\ UNCHANGED <<users, referrals, reserved, blacklist, seq, txn, bulk>>

\* lines 659-666 and 788-810: the UPDATE by id and db.commit()
ProfileUpdate(p) ==
    /\ req[p].pc = "update"
    /\ users' = update_profile(users, req[p].target, req[p].form)
    /\ req' = [req EXCEPT ![p].pc = "done"]
    /\ UNCHANGED <<referrals, reserved, blacklist, seq, txn, bulk>>

\* edit_user(code) of the other side, lines 860-879: get_user_by_code,
\* abort(404) when there is none; then db.execute(...) on the psycopg2
\* connection, which has no execute method: line 868 raises AttributeError
\* before the UPDATE of users or of reserved_accounts is sent
EditUserVariant(p) ==
    /\ req[p].pc = "idle"
    /\ \E code \in {u.code : u \in users} \cup {<<"z">>}, f \in ProfileForms :
         LET rows == get_user_by_code(users, code)
         IN  req' = [req EXCEPT ![p] =
                       IF rows = {}
                       THEN [IdleReq EXCEPT !.pc = "failed", !.error = "NotFound",
                                            !.identifier = code, !.form = f]
                       ELSE [IdleReq EXCEPT !.pc = "failed", !.error = "AttributeError",
                                            !.identifier = code, !.form = f,
                                            !.target = TheRow(rows).id]]
    /\ UNCHANGED <<users, referrals, reserved, blacklist, seq, txn, bulk>>

\* ------------------------------------------------------------------ bulk add
\* admin_bulk_add(), lines 705-742
RECURSIVE SeqsUpTo(_, _)
SeqsUpTo(S, n) ==
    IF n = 0 THEN {<<>>}
    ELSE SeqsUpTo(S, n - 1) \cup {Append(t, x) : t \in SeqsUpTo(S, n - 1), x \in S}

\* str.strip(): leading and trailing whitespace removed
RECURSIVE StripLeft(_)
StripLeft(s) ==
    IF s # <<>> /\ Head(s) \in Whitespace THEN StripLeft(Tail(s)) ELSE s

Reverse(s) == [i \in 1..Len(s) |-> s[Len(s) + 1 - i]]

Strip(s) == Reverse(StripLeft(Reverse(StripLeft(s))))

\* line 714: [u.strip() for u in lines if u.strip()]
RECURSIVE StrippedNonBlank(_)
StrippedNonBlank(lines) ==
    IF lines = <<>> THEN <<>>
    ELSE IF Strip(Head(lines)) = <<>> THEN StrippedNonBlank(Tail(lines))
    ELSE <<Strip(Head(lines))>> \o StrippedNonBlank(Tail(lines))

\* the lines typed into the textarea: usernames, a padded one, a blank one
BulkLines == FormUsernames \cup {<<" ", "a", " ">>, <<" ">>}

\* lines 708-715: a POST arrives with lines typed from Typed; a text with no
\* username is turned away, otherwise usernames are the stripped non-blank lines
BulkPostOf(p, Typed) ==
    /\ req[p].pc = "idle"
    /\ bulk.pc = "idle"
    /\ seq.ref_users <= MaxSerial
    /\ \E lines \in SeqsUpTo(Typed, MaxBatch) :
         /\ StrippedNonBlank(lines) # <<>>
         /\ bulk' = [IdleBulk EXCEPT !.pc = "loop", !.lines = lines,
                                     !.usernames = StrippedNonBlank(lines)]
    /\ req' = [req EXCEPT ![p].pc = "bulk"]
    /\ UNCHANGED <<users, referrals, reserved, blacklist, seq, txn>>

\* a POST whose lines are plain usernames
BulkPost(p) == BulkPostOf(p, FormUsernames)

\* a POST whose lines may be padded or blank
BulkPostTyped(p) == BulkPostOf(p, BulkLines)

\* a loop body that has lost the "if row" test
bulk_outcome_no_row_test(b, uname, violated) ==
    [b EXCEPT !.usernames = Tail(@),
              !.added = IF violated # "code" THEN Append(@, uname) ELSE @,
              !.skipped = IF violated = "username" THEN Append(@, uname)
                          ELSE IF violated = "code"
                          THEN Append(@, uname \o <<" (error)">>)
                          ELSE @]

\* lines 728-736: a returned row is added, no row (ON CONFLICT DO NOTHING) is
\* skipped, an exception is skipped as "<uname> (error)"
bulk_outcome(b, uname, violated) ==
    [b EXCEPT !.usernames = Tail(@),
              !.added = IF violated = "none" THEN Append(@, uname) ELSE @,
              !.skipped = IF violated = "username" THEN Append(@, uname)
                          ELSE IF violated = "code"
                          THEN Append(@, uname \o <<" (error)">>)
                          ELSE @]

\* lines 717-736: one iteration of the loop
BulkInsert(p) ==
    /\ req[p].pc = "bulk"
    /\ bulk.usernames # <<>>
    /\ seq.ref_users <= MaxSerial
    /\ \E code \in gen_code(CodeLen) :
         LET uname == Head(bulk.usernames)
             row == UserRow(Nextval(seq.ref_users), uname, code, NULL, NULL, NULL,
                            NULL, NULLID)
             violated == UniqueViolation(users, row)
         IN  /\ ~MustWait(p, row)
             /\ users' = IF violated = "none" THEN users \cup {row} ELSE users
             /\ bulk' = bulk_outcome(bulk, uname, violated)
    /\ seq' = [seq EXCEPT !.ref_users = @ + 1]
    /\ UNCHANGED <<referrals, reserved, blacklist, txn, req>>

\* lines 738-742: the lists are flashed and the page is rendered
BulkRespond(p) ==
    /\ req[p].pc = "bulk"
    /\ bulk.usernames = <<>>
    /\ bulk' = IdleBulk
    /\ req' = [req EXCEPT ![p] = IdleReq]
    /\ UNCHANGED <<users, referrals, reserved, blacklist, seq, txn>>

\* ------------------------------------------------------------------ system
\* The file holds both sides of an unresolved merge: the HEAD side defines
\* signup with a form-supplied username and admin_bulk_add; the other side
\* defines signup over create_user_auto_username.  A deployment runs one side.

\* the HEAD side
Next ==
    \/ \E p \in Procs : SignupPost(p)
    \/ \E p \in Procs : SignupResolveUser(p)
    \/ \E p \in Procs : SignupInsert(p)
    \/ \E p \in Procs : SignupRecordReferral(p)
    \/ \E p \in Procs : Respond(p)
    \/ \E p \in Procs : BulkPost(p)
    \/ \E p \in Procs : BulkInsert(p)
    \/ \E p \in Procs : BulkRespond(p)

Spec == Init /\ [][Next]_vars

\* the auto-username side
NextAuto ==
    \/ \E p \in Procs : AutoPost(p)
    \/ \E p \in Procs : AutoScreen(p)
    \/ \E p \in Procs : AutoResolve(p)
    \/ \E p \in Procs : AutoAllocate(p)
    \/ \E p \in Procs : AutoInsert(p)
    \/ \E p \in Procs : AutoMark(p)
    \/ \E p \in Procs : AutoRecordReferral(p)
    \/ \E p \in Procs : DeleteUser(p)
    \/ \E p \in Procs : Respond(p)

SpecAuto == InitAuto /\ [][NextAuto]_vars

\* the referral ledger on its own: record_referral called, and called again,
\* with any pair of user ids, as a retried or replayed confirmation does
LedgerIds == 1..3

InitLedger ==
    /\ users = {UserRow(i, <<LowerChars[i]>>, [k \in 1..CodeLen |-> SampleChar(i)],
                        NULL, NULL, NULL, NULL, NULLID) : i \in 1..2}
    /\ referrals = {}
    /\ reserved = {PoolRow(i) : i \in 1..MaxPool}
    /\ blacklist = BlacklistRows
    /\ seq = [ref_users |-> 3, referrals |-> 1]
    /\ txn = [p \in Procs |-> {}]
    /\ req = [p \in Procs |-> IdleReq]
    /\ bulk = IdleBulk

\* a caller is about to run record_referral(referrer_id, referred_id)
LedgerCall(p) ==
    /\ req[p].pc = "idle"
    /\ seq.referrals <= MaxCalls
    /\ \E r \in LedgerIds, u \in LedgerIds :
         req' = [req EXCEPT ![p] = [IdleReq EXCEPT !.pc = "ledger",
                                                   !.referred_by_id = r,
                                                   !.new_user = u]]
    /\ UNCHANGED <<users, referrals, reserved, blacklist, seq, txn, bulk>>

NextLedger ==
    \/ \E p \in Procs : LedgerCall(p)
    \/ \E p \in Procs : SignupRecordReferral(p)
    \/ \E p \in Procs : Respond(p)

SpecLedger == InitLedger /\ [][NextLedger]_vars

\* the account pool on its own: allocate_reserved_username and
\* mark_reserved_assigned called with any preferred currency on pools of any
\* currency tags
RowCurrencies == {NULL, <<"USD">>, <<"KWD">>}
PreferredCurrencies == {NULL, <<>>, <<"USD">>, <<"KWD">>, <<"EUR">>}

InitPool ==
    /\ users = {UserRow(i, <<LowerChars[i]>>, [k \in 1..CodeLen |-> SampleChar(i)],
                        NULL, NULL, NULL, NULL, NULLID) : i \in 1..2}
    /\ referrals = {}
    /\ \E tag \in [1..MaxPool -> RowCurrencies] :
         reserved = {[PoolRow(i) EXCEPT !.currency = tag[i]] : i \in 1..MaxPool}
    /\ blacklist = BlacklistRows
    /\ seq = [ref_users |-> 3, referrals |-> 1]
    /\ txn = [p \in Procs |-> {}]
    /\ req = [p \in Procs |-> IdleReq]
    /\ bulk = IdleBulk

\* a caller runs allocate_reserved_username(currency)
PoolAllocate(p) ==
    /\ req[p].pc = "idle"
    /\ \E currency \in PreferredCurrencies :
         LET username == allocate_reserved_username(reserved, currency)
         IN  req' = [req EXCEPT ![p] =
                       [IdleReq EXCEPT !.pc = IF username = NULL THEN "failed" ELSE "claimed",
                                       !.error = IF username = NULL THEN "PoolExhausted"
                                                 ELSE "none",
                                       !.form = [NoForm EXCEPT !.currency = currency],
                                       !.alloc = username]]
    /\ UNCHANGED <<users, referrals, reserved, blacklist, seq, txn, bulk>>

\* the caller runs mark_reserved_assigned(username, user_id) for a user
PoolMark(p) ==
    /\ req[p].pc = "claimed"
    /\ \E u \in users :
         /\ reserved' = mark_reserved_assigned(reserved, req[p].alloc, u.id)
         /\ req' = [req EXCEPT ![p].pc = "done", ![p].new_user = u.id]
    /\ UNCHANGED <<users, referrals, blacklist, seq, txn, bulk>>

NextPool ==
    \/ \E p \in Procs : PoolAllocate(p)
    \/ \E p \in Procs : PoolMark(p)
    \/ \E p \in Procs : Respond(p)

SpecPool == InitPool /\ [][NextPool]_vars
\* the blacklist screen on its own: check_blacklist called with any intake
\* attributes on any blacklist the administrator may keep
ScreenRows ==
    {[kind |-> "phone", value |-> <<"p">>, reason |-> <<"fraud">>, active |-> 1],
     [kind |-> "phone", value |-> <<"p">>, reason |-> <<"old">>, active |-> 0],
     [kind |-> "name", value |-> <<"p">>, reason |-> NULL, active |-> 1],
     [kind |-> "name", value |-> <<"j", " ", "s">>, reason |-> <<"ban">>, active |-> 1],
     [kind |-> "telegram_id", value |-> <<"p">>, reason |-> <<>>, active |-> 1],
     [kind |-> "referral_code", value |-> [i \in 1..CodeLen |-> "a"],
      reason |-> NULL, active |-> 1],
     [kind |-> "referral_username", value |-> <<"a">>, reason |-> <<"ring">>,
      active |-> 1]}

\* what is typed into each field: nothing, or a spelling of a screened value
ScreenPhones == {NULL, <<>>, <<"p">>, <<" ", "P">>}
ScreenNames ==
    {<<NULL, NULL>>, <<<<"P">>, NULL>>, <<NULL, <<" ", "p">>>>,
     <<<<"J">>, <<" ", "S">>>>, <<<<"j", " ", " ", "S">>, NULL>>}

\* how many of the five kinds have their attribute filled in
KindsFilled(f) ==
    Cardinality({k \in {"phone", "telegram_id", "ref_code", "ref_user"} : f[k] # NULL})
    + (IF f.first_name # NULL \/ f.last_name # NULL THEN 1 ELSE 0)

\* intake attributes with at most two of the kinds filled in
ScreenForms ==
    {f \in [username : {NULL}, currency : {NULL},
            first_name : {n[1] : n \in ScreenNames},
            last_name : {n[2] : n \in ScreenNames},
            phone : ScreenPhones, telegram_id : {NULL, <<"P", "\t">>},
            ref_code : {NULL, [i \in 1..CodeLen |-> "A"]},
            ref_user : {NULL, <<"A", " ">>}] :
       /\ <<f.first_name, f.last_name>> \in ScreenNames
       /\ KindsFilled(f) <= 2}

\* rows a screened blacklist holds at most
MaxRows == 2

InitScreen ==
    /\ users = {}
    /\ referrals = {}
    /\ reserved = {PoolRow(i) : i \in 1..MaxPool}
    /\ blacklist \in {b \in SUBSET ScreenRows : Cardinality(b) <= MaxRows}
    /\ seq = [ref_users |-> 1, referrals |-> 1]
    /\ txn = [p \in Procs |-> {}]
    /\ req = [p \in Procs |-> IdleReq]
    /\ bulk = IdleBulk

\* a caller runs check_blacklist(first_name=..., ..., ref_username=...)
ScreenCall(p) ==
    /\ req[p].pc = "idle"
    /\ \E f \in ScreenForms :
         \E reason \in check_blacklist(blacklist, f) :
           req' = [req EXCEPT ![p] = [IdleReq EXCEPT !.pc = "done", !.form = f,
                                                     !.reason = reason]]
    /\ UNCHANGED <<users, referrals, reserved, blacklist, seq, txn, bulk>>

NextScreen ==
    \/ \E p \in Procs : ScreenCall(p)
    \/ \E p \in Procs : Respond(p)

SpecScreen == InitScreen /\ [][NextScreen]_vars
\* the profile handlers on a registry signups have filled: r1 holds the
\* reserved account r1, b was referred by r1, and the third user's username
\* is spelled like r1's code
InitProfile ==
    /\ users = {UserRow(1, PoolRow(1).username, [k \in 1..CodeLen |-> SampleChar(1)],
                        NULL, NULL, NULL, NULL, NULLID),
                UserRow(2, <<"b">>, [k \in 1..CodeLen |-> SampleChar(2)],
                        <<>>, <<>>, NULL, NULL, 1),
                UserRow(3, [k \in 1..CodeLen |-> SampleChar(1)],
                        [k \in 1..CodeLen |-> SampleChar(3)],
                        NULL, NULL, NULL, NULL, NULLID)}
    /\ referrals = {[id |-> 1, referrer_user_id |-> 1, referred_user_id |-> 2]}
    /\ reserved = mark_reserved_assigned({PoolRow(i) : i \in 1..MaxPool},
                                         PoolRow(1).username, 1)
    /\ blacklist = BlacklistRows
    /\ seq = [ref_users |-> 4, referrals |-> 2]
    /\ txn = [p \in Procs |-> {}]
    /\ req = [p \in Procs |-> IdleReq]
    /\ bulk = IdleBulk

NextProfile ==
    \/ \E p \in Procs : FillLookup(p)
    \/ \E p \in Procs : EditLookup(p)
    \/ \E p \in Procs : ProfileUpdate(p)
    \/ \E p \in Procs : EditUserVariant(p)
    \/ \E p \in Procs : Respond(p)

SpecProfile == InitProfile /\ [][NextProfile]_vars
\* bulk add on its own: batches of typed lines, one after the other
NextBulk ==
    \/ \E p \in Procs : BulkPostTyped(p)
    \/ \E p \in Procs : BulkInsert(p)
    \/ \E p \in Procs : BulkRespond(p)

SpecBulk == Init /\ [][NextBulk]_vars

\* ------------------------------------------------------------------ claims
\* request p has been handed a pool username and has not yet marked it assigned
HoldsAccount(p) == req[p].pc \in {"auto_insert", "mark"}

Unassigned == {r \in reserved : r.is_assigned = 0}

\* C1: under any interleaving of concurrent auto-assign signups, no two of them
\* are handed the same reserved username, and the signups holding an account
\* never outnumber the unassigned accounts of the pool.
C1_NoDuplicateAllocation ==
    /\ \A p, q \in Procs :
         (p # q /\ HoldsAccount(p) /\ HoldsAccount(q)) => req[p].alloc # req[q].alloc
    /\ Cardinality({p \in Procs : HoldsAccount(p)}) <= Cardinality(Unassigned)

\* request p was handed a pool row that the user of another signup now owns
LostRace(p) ==
    /\ req[p].alloc # NULL
    /\ \E r \in reserved : /\ r.username = req[p].alloc
                           /\ r.is_assigned = 1
                           /\ r.assigned_user_id # req[p].new_user

\* C2: of two signups racing for one unassigned row exactly one receives it; the
\* loser receives the next-oldest unassigned account or fails with
\* PoolExhausted (it never fails because the row was taken).
C2_LoserGetsNextOrExhausted ==
    \A p \in Procs :
      (LostRace(p) /\ req[p].pc = "failed") =>
        req[p].error \in {"PoolExhausted", "CodeAllocationExhausted"}

\* C3: a signup in which a step after the claim failed (code assignment, user
\* insert or ledger update) leaves no user row and no pool claim behind.
C3_FailureLeavesNothing ==
    \A p \in Procs :
      (req[p].pc = "failed" \/ req[p].ledger_error) =>
        /\ ~ \E u \in users : u.id = req[p].new_user
        /\ ~ \E r \in reserved : r.is_assigned = 1
                                 /\ r.assigned_user_id = req[p].new_user

\* C4: a signup whose attributes match an active blacklist entry is rejected
\* with Blacklisted before anything is written: it creates no user row, no
\* pool claim and no edge.
C4_BlacklistedWritesNothing ==
    \A p \in Procs :
      (req[p].pc \notin {"idle", "bulk"}
       /\ check_blacklist(blacklist, req[p].form) # {NULL}) =>
        /\ req[p].new_user = NULLID
        /\ req[p].alloc = NULL
        /\ req[p].pc \in {"done", "failed"} => req[p].error = "Blacklisted"

\* the stored edges of one (referrer, referred) pair
EdgesOf(refs, r, u) ==
    {e \in refs : e.referrer_user_id = r /\ e.referred_user_id = u}

\* request p takes its record_referral step
RecordsNow(p) == req[p].pc = "ledger" /\ req'[p].pc = "done"

\* C5: record_referral is idempotent: however often and in whatever
\* interleaving it is called for a pair, at most one edge is stored for the
\* pair, exactly one once a call's INSERT went through, and a call for a pair
\* already stored changes nothing and returns normally.
C5_RecordReferralIdempotent ==
    /\ [](\A e1, e2 \in referrals :
            (/\ e1.referrer_user_id = e2.referrer_user_id
             /\ e1.referred_user_id = e2.referred_user_id) => e1 = e2)
    /\ [][\A p \in Procs :
            RecordsNow(p) =>
              LET r == req[p].referred_by_id
                  u == req[p].new_user
              IN  /\ EdgesOf(referrals, r, u) # {} => referrals' = referrals
                  /\ ~req'[p].ledger_error =>
                       Cardinality(EdgesOf(referrals', r, u)) = 1
                  /\ req'[p].error = "none"]_vars

\* C5 witness: two calls for the same pair have both returned without a
\* rollback, and the pair has its edge.
C5_Witness ==
    \E p, q \in Procs :
      /\ p # q
      /\ req[p].pc = "done" /\ req[q].pc = "done"
      /\ ~req[p].ledger_error /\ ~req[q].ledger_error
      /\ req[p].referred_by_id = req[q].referred_by_id
      /\ req[p].new_user = req[q].new_user
      /\ EdgesOf(referrals, req[p].referred_by_id, req[p].new_user) # {}

\* C6: no user is its own referrer and no edge joins a user to itself.
C6_NoSelfReferral ==
    /\ \A u \in users : u.referred_by_user_id # u.id
    /\ \A e \in referrals : e.referrer_user_id # e.referred_user_id

\* C6 witness: a signup that named its own username as referral username has
\* created its user, and a referred user with its edge exists.
C6_Witness ==
    /\ \E p \in Procs : /\ req[p].pc = "done"
                        /\ req[p].new_user # NULLID
                        /\ req[p].form.ref_user = req[p].form.username
    /\ \E u \in users : /\ u.referred_by_user_id # NULLID
                        /\ EdgesOf(referrals, u.referred_by_user_id, u.id) # {}

\* C7: all users have pairwise distinct codes, each of exactly 8 characters
\* drawn from the uppercase letters and the digits.
C7_CodesUniqueWellFormed ==
    \A u \in users :
      /\ Len(u.code) = 8
      /\ \A i \in DOMAIN u.code : u.code[i] \in Alphabet
      /\ \A v \in users : v # u => v.code # u.code

\* C7 witness: a user created by bulk add (no profile) and one created by
\* signup exist, and a signup's generated code has collided with a stored one.
C7_Witness ==
    /\ \E u \in users : u.first_name = NULL
    /\ \E u \in users : u.first_name = <<>>
    /\ \E p \in Procs : req[p].error = "DuplicateCode"

\* C8: a code collision at insert time makes the signup regenerate and retry;
\* a signup that has seen a collision fails only after the fixed number of
\* attempts, and then with CodeAllocationExhausted.
C8_CollisionIsRetried ==
    \A p \in Procs :
      (req[p].collisions > 0 /\ req[p].pc = "failed") =>
        /\ req[p].error = "CodeAllocationExhausted"
        /\ req[p].collisions >= MaxCodeRetries

\* request p takes its INSERT INTO ref_users step
InsertsNow(p) == req[p].pc = "insert" /\ req'[p].pc # "insert"

\* C9: usernames are unique in every state; a signup whose username already
\* exists fails with DuplicateUsername, creates no user and leaves users, edges
\* and pool unchanged.
C9_UsernamesUnique ==
    /\ [](\A u, v \in users : u # v => u.username # v.username)
    /\ [](\A p \in Procs : req[p].error = "DuplicateUsername" =>
                             req[p].pc = "failed" /\ req[p].new_user = NULLID)
    /\ [][\A p \in Procs :
            (InsertsNow(p) /\ \E u \in users : u.username = req[p].form.username) =>
              /\ req'[p].error = "DuplicateUsername"
              /\ users' = users /\ referrals' = referrals /\ reserved' = reserved]_vars

\* C9 witness: of two concurrent signups with the same username one has
\* created the user and the other has failed with DuplicateUsername.
C9_Witness ==
    \E p, q \in Procs :
      /\ p # q
      /\ req[p].form.username = req[q].form.username
      /\ req[p].pc = "done" /\ req[p].new_user # NULLID
      /\ req[q].pc = "failed" /\ req[q].error = "DuplicateUsername"

\* referrer resolution of request p has finished
Resolved(p) == req[p].pc \in {"insert", "ledger", "done", "failed"}

\* C10: the code takes precedence over the username: a non-empty referral code
\* that matches a user makes that user the referrer whatever the username
\* argument is, and the username is looked up only when no code was supplied
\* or the code matched no user.
C10_CodePrecedence ==
    /\ [][\A p \in Procs :
            (req[p].pc = "idle" /\ req'[p].pc = "resolve_user") =>
              \A u \in users :
                (req'[p].form.ref_code # NULL /\ req'[p].form.ref_code # <<>>
                 /\ u.code = req'[p].form.ref_code) => req'[p].code_hit = u.id]_vars
    /\ [](\A p \in Procs :
            Resolved(p) =>
              /\ req[p].code_hit # NULLID =>
                   (req[p].referred_by_id = req[p].code_hit /\ ~req[p].consulted)
              /\ req[p].consulted =>
                   (~Truthy(req[p].form.ref_code) \/ req[p].code_hit = NULLID))

\* C10 witness: a signup's code matched one user while its referral username
\* names another existing user.
C10_Witness ==
    \E p \in Procs :
      /\ Resolved(p)
      /\ req[p].code_hit # NULLID
      /\ \E u \in users : /\ u.username = req[p].form.ref_user
                          /\ u.id # req[p].code_hit

\* request p takes its username-lookup step
ResolvesUserNow(p) == req[p].pc = "resolve_user" /\ req'[p].pc = "insert"

\* C11: a referral code or referral username that matches no user never fails
\* the signup: no referrer is resolved, the only failures are the uniqueness
\* violations of the insert, and the user is created with referred_by_user_id
\* null and no referral edge.
C11_NoMatchNoReferrer ==
    /\ [][\A p \in Procs :
            (req[p].pc = "idle" /\ req'[p].pc = "resolve_user") =>
              ((~ \E u \in users : u.code = req'[p].form.ref_code) =>
                 req'[p].referred_by_id = NULLID)]_vars
    /\ [][\A p \in Procs :
            (ResolvesUserNow(p) /\ req[p].referred_by_id = NULLID
             /\ ~ \E u \in users : u.username = req[p].form.ref_user) =>
              req'[p].referred_by_id = NULLID]_vars
    /\ [][\A p \in Procs :
            (InsertsNow(p) /\ req[p].referred_by_id = NULLID
             /\ ~ \E u \in users : \/ u.username = req[p].form.username
                                   \/ u.code \in gen_code(CodeLen)) =>
              /\ req'[p].pc = "done"
              /\ \E u \in users' \ users : /\ u.id = req'[p].new_user
                                           /\ u.referred_by_user_id = NULLID]_vars
    /\ [](\A p \in Procs :
            /\ req[p].pc = "failed" =>
                 req[p].error \in {"DuplicateUsername", "DuplicateCode"}
            /\ (req[p].pc = "done" /\ req[p].referred_by_id = NULLID) =>
                 /\ \A u \in users : u.id = req[p].new_user =>
                                       u.referred_by_user_id = NULLID
                 /\ ~ \E e \in referrals : e.referred_user_id = req[p].new_user)

\* C11 witness: a signup whose referral code and referral username both match
\* no user has created its user.
C11_Witness ==
    \E p \in Procs :
      /\ req[p].pc = "done"
      /\ Truthy(req[p].form.ref_code) /\ Truthy(req[p].form.ref_user)
      /\ req[p].consulted
      /\ req[p].referred_by_id = NULLID
      /\ \E u \in users : u.id = req[p].new_user /\ u.referred_by_user_id = NULLID

\* C12: a signup that resolved a referrer X and returned success has created
\* its user with referred_by_user_id = X.id and the edge (X.id, new user) is
\* stored.
C12_ReferrerHasEdge ==
    \A p \in Procs :
      (req[p].pc = "done" /\ req[p].new_user # NULLID
       /\ req[p].referred_by_id # NULLID) =>
        /\ \E u \in users : /\ u.id = req[p].new_user
                            /\ u.referred_by_user_id = req[p].referred_by_id
        /\ EdgesOf(referrals, req[p].referred_by_id, req[p].new_user) # {}

\* request p takes its allocate_reserved_username step
AllocatesNow(p) == req[p].pc = "idle" /\ req'[p].pc \in {"claimed", "failed"}

\* username is the account of rows with the lowest insertion order
LowestOf(rows, username) ==
    \E r \in rows : r.username = username /\ \A o \in rows : r.id <= o.id

\* C13: allocate_reserved_username returns the unassigned account with the
\* lowest insertion order among those of the preferred currency when a
\* currency is given and such an account exists, and otherwise the unassigned
\* account with the lowest insertion order of any currency.
C13_AllocationOrder ==
    [][\A p \in Procs :
         AllocatesNow(p) =>
           LET c == req'[p].form.currency
               same == {r \in Unassigned : r.currency = c}
           IN  IF c # NULL /\ c # <<>> /\ same # {}
               THEN LowestOf(same, req'[p].alloc)
               ELSE Unassigned # {} => LowestOf(Unassigned, req'[p].alloc)]_vars

\* C13 witness: one caller was given the oldest account of its currency while
\* an older account of another currency is unassigned, and another caller,
\* whose currency no unassigned account has, was given the oldest account.
C13_Witness ==
    /\ \E p \in Procs, r, o \in Unassigned :
         /\ req[p].pc = "claimed" /\ r.username = req[p].alloc
         /\ r.currency = req[p].form.currency
         /\ o.id < r.id
    /\ \E q \in Procs, r \in Unassigned :
         /\ req[q].pc = "claimed" /\ r.username = req[q].alloc
         /\ Truthy(req[q].form.currency)
         /\ r.currency # req[q].form.currency

\* request p takes the allocation step of the auto-username signup
AutoAllocatesNow(p) == req[p].pc = "allocate" /\ req'[p].pc # "allocate"

\* C14: allocate_reserved_username returns no username exactly when no
\* unassigned account exists; an auto-assign signup then fails with
\* PoolExhausted, which is final, and creates no user and claims no account.
C14_ExhaustedPoolFails ==
    /\ [][\A p \in Procs :
            AutoAllocatesNow(p) =>
              /\ req'[p].alloc = NULL <=> Unassigned = {}
              /\ Unassigned = {} =>
                   /\ req'[p].pc = "failed" /\ req'[p].error = "PoolExhausted"
                   /\ users' = users /\ reserved' = reserved /\ txn' = txn]_vars
    /\ [][\A p \in Procs :
            req[p].pc = "failed" => req'[p].pc \in {"failed", "idle"}]_vars
    /\ [](\A p \in Procs :
            req[p].error = "PoolExhausted" =>
              /\ req[p].pc = "failed"
              /\ req[p].new_user = NULLID /\ req[p].alloc = NULL /\ txn[p] = {})

\* C14 witness: every account is assigned and a signup has failed with
\* PoolExhausted.
C14_Witness ==
    /\ Unassigned = {} /\ users # {}
    /\ \E p \in Procs : req[p].pc = "failed" /\ req[p].error = "PoolExhausted"

\* C15: every reserved account has its assignment flag set if and only if its
\* assigned_user_id is non-null.
C15_FlagIffAssignedUser ==
    \A r \in reserved :
      /\ r.is_assigned \in {0, 1}
      /\ r.is_assigned = 1 <=> r.assigned_user_id # NULLID

\* request p ran delete_user on the user an account is assigned to
DeleteOfHolder(p) ==
    /\ req[p].error = "AttributeError"
    /\ \E r \in reserved : r.is_assigned = 1 /\ r.assigned_user_id = req[p].code_hit

\* C15 witness: an assigned and an unassigned account exist, and delete_user
\* has run on the user the assigned one belongs to.
C15_Witness ==
    /\ Unassigned # {}
    /\ \E p \in Procs : DeleteOfHolder(p)

\* C16: an account goes from unassigned to assigned once: an assigned account
\* is never made unassigned again nor given to another user, and the only
\* change an account undergoes is becoming assigned.
C16_AssignedOnce ==
    [][\A r \in reserved :
         \E n \in reserved' :
           /\ n.id = r.id
           /\ n = r \/ (r.is_assigned = 0 /\ n.is_assigned = 1)
           /\ r.is_assigned = 1 => (/\ n.is_assigned = 1
                                    /\ n.assigned_user_id = r.assigned_user_id)]_vars

\* C16 witness: two accounts are assigned to two different users, after two
\* signups had been handed the same account, and delete_user has run on one
\* of the two users.
C16_Witness ==
    /\ \E r, o \in reserved : /\ r.is_assigned = 1 /\ o.is_assigned = 1
                              /\ r.assigned_user_id # o.assigned_user_id
    /\ \E p \in Procs : DeleteOfHolder(p)
    /\ \E q \in Procs : req[q].error = "DuplicateUsername"

\* the kinds in the order the claim gives
ScreenKinds == <<"phone", "telegram_id", "referral_code", "referral_username", "name">>

Absent(v) == v = NULL \/ v = <<>>

\* the attribute of kind i as typed; the name is first and last name joined
RawValue(f, i) ==
    CASE i = 1 -> f.phone
      [] i = 2 -> f.telegram_id
      [] i = 3 -> f.ref_code
      [] i = 4 -> f.ref_user
      [] OTHER -> IF Absent(f.first_name) /\ Absent(f.last_name) THEN NULL
                  ELSE (IF Absent(f.first_name) THEN <<>> ELSE f.first_name)
                       \o <<" ">> \o
                       (IF Absent(f.last_name) THEN <<>> ELSE f.last_name)

\* the active entries of one kind and value
ActiveFor(kind, value) ==
    {b \in blacklist : b.active = 1 /\ b.kind = kind /\ b.value = value}

\* the kinds whose normalized attribute an active entry of that kind holds
Hits(f) ==
    {i \in 1..5 : /\ ~Absent(normalize(RawValue(f, i)))
                  /\ ActiveFor(ScreenKinds[i], normalize(RawValue(f, i))) # {}}

\* C17: check_blacklist examines phone, messaging id, referral code, referral
\* username and name in this order and returns the reason of the first kind
\* an active entry matches, or the generic text naming the kind when the entry
\* stores no reason; absent values are skipped; the result is None when no
\* kind matches.
C17_ScreenOrder ==
    \A p \in Procs :
      req[p].pc = "done" =>
        LET f == req[p].form
        IN  IF Hits(f) = {} THEN req[p].reason = NULL
            ELSE LET i == CHOOSE i \in Hits(f) : \A j \in Hits(f) : i <= j
                 IN  \E b \in ActiveFor(ScreenKinds[i], normalize(RawValue(f, i))) :
                       req[p].reason = IF Absent(b.reason)
                                       THEN <<"Blocked by blacklist: ", ScreenKinds[i]>>
                                       ELSE b.reason

\* C17 witness: a call in which the phone and the name both match returned the
\* phone entry's reason, and a call in which only the name matches an entry
\* without a reason returned the generic text.
C17_Witness ==
    /\ \E p \in Procs : /\ req[p].pc = "done"
                        /\ {1, 5} \subseteq Hits(req[p].form)
                        /\ req[p].reason = <<"fraud">>
    /\ \E q \in Procs : /\ req[q].pc = "done"
                        /\ Hits(req[q].form) = {5}
                        /\ req[q].reason = <<"Blocked by blacklist: ", "name">>

\* C18: matching is insensitive to case and spacing: two calls whose
\* attributes are equal kind by kind after normalization get the same result,
\* and an active phone entry whose value is the normalized phone blocks.
C18_NormalizedMatching ==
    /\ \A p, q \in Procs :
         (/\ req[p].pc = "done" /\ req[q].pc = "done"
          /\ \A i \in 1..5 : normalize(RawValue(req[p].form, i))
                             = normalize(RawValue(req[q].form, i))) =>
           req[p].reason = req[q].reason
    /\ \A p \in Procs :
         (/\ req[p].pc = "done"
          /\ ActiveFor("phone", normalize(req[p].form.phone)) # {}) =>
           req[p].reason # NULL

\* C18 witness: two calls with differently spelled phones and names that
\* normalize to the same values were both blocked.
C18_Witness ==
    \E p, q \in Procs :
      /\ req[p].pc = "done" /\ req[q].pc = "done"
      /\ req[p].form.phone # req[q].form.phone
      /\ req[p].form.first_name # req[q].form.first_name
      /\ \A i \in 1..5 : normalize(RawValue(req[p].form, i))
                         = normalize(RawValue(req[q].form, i))
      /\ ~Absent(req[p].form.phone) /\ ~Absent(req[p].form.first_name)
      /\ req[p].reason # NULL /\ req[q].reason # NULL

\* C19: only active entries match, and only on kind and normalized value: when
\* every entry that equals an attribute in kind and normalized value is
\* inactive (entries of another kind with that value do not count), the result
\* is None.
C19_ActiveSameKindOnly ==
    \A p \in Procs :
      (/\ req[p].pc = "done"
       /\ \A b \in blacklist, i \in 1..5 :
            (b.kind = ScreenKinds[i] /\ b.value = normalize(RawValue(req[p].form, i)))
              => b.active = 0) =>
        req[p].reason = NULL

\* C19 witness: a call whose phone equals an inactive phone entry and an active
\* name entry, and no active phone entry, returned None.
C19_Witness ==
    \E p \in Procs :
      /\ req[p].pc = "done" /\ req[p].reason = NULL
      /\ \E b \in blacklist : /\ b.kind = "phone" /\ b.active = 0
                              /\ b.value = normalize(req[p].form.phone)
      /\ \E b \in blacklist : /\ b.kind = "name" /\ b.active = 1
                              /\ b.value = normalize(req[p].form.phone)

\* C20: bulk_create handles each entry on its own: an entry is skipped only
\* because its username is already stored (before the batch or by an earlier
\* entry of it), every other entry is added exactly once with a generated
\* code, and the batch goes on after a skipped entry.
C20_BulkAddsOrSkips ==
    bulk.pc = "loop" =>
      /\ \A i \in DOMAIN bulk.skipped :
           \E u \in users : u.username = bulk.skipped[i]
      /\ \A i \in DOMAIN bulk.added :
           /\ \E u \in users : u.username = bulk.added[i] /\ Len(u.code) = CodeLen
           /\ \A j \in DOMAIN bulk.added : bulk.added[j] = bulk.added[i] => j = i

\* request p takes the UPDATE step of a profile update
UpdatesNow(p) == req[p].pc = "update" /\ req'[p].pc = "done"

\* C21: a profile update changes only first name, last name, phone and
\* messaging id of the one resolved user: that user's id, username, code and
\* referrer, every other user, all edges and all reserved accounts stay as
\* they are.
C21_ProfileUpdateFrame ==
    [][/\ referrals' = referrals
       /\ reserved' = reserved
       /\ Cardinality(users') = Cardinality(users)
       /\ \A u \in users :
            \E n \in users' :
              /\ n.id = u.id /\ n.username = u.username /\ n.code = u.code
              /\ n.referred_by_user_id = u.referred_by_user_id
              /\ n # u => \E p \in Procs : UpdatesNow(p) /\ req[p].target = u.id
       /\ \A p \in Procs :
            UpdatesNow(p) =>
              \E n \in users' :
                /\ n.id = req[p].target
                /\ n.first_name = req[p].form.first_name
                /\ n.last_name = req[p].form.last_name
                /\ n.phone = req[p].form.phone
                /\ n.telegram_id = req[p].form.telegram_id]_vars

\* C21 witness: the referred user's profile has been filled in through its
\* username, and the edit of the other side, with a currency, has run on the
\* user a reserved account is assigned to.
C21_Witness ==
    /\ \E p \in Procs, u \in users :
         /\ req[p].pc = "done" /\ req[p].target = u.id
         /\ req[p].identifier = u.username
         /\ u.referred_by_user_id # NULLID
         /\ u.phone = <<"7">>
    /\ \E q \in Procs, r \in reserved :
         /\ req[q].error = "AttributeError"
         /\ Truthy(req[q].form.currency)
         /\ r.is_assigned = 1 /\ r.assigned_user_id = req[q].target

\* request p takes the lookup step of a profile update
LooksUpNow(p) == req[p].pc = "idle" /\ req'[p].pc # "idle"

\* C22: a profile update whose identifier is neither a code nor a username of
\* any user yields NotFound, which is final, and leaves the stored state
\* unchanged.
C22_UnknownIdentifierNotFound ==
    /\ [][\A p \in Procs :
            (/\ LooksUpNow(p)
             /\ ~ \E u \in users : \/ u.code = req'[p].identifier
                                   \/ u.username = req'[p].identifier) =>
              /\ req'[p].pc = "failed" /\ req'[p].error = "NotFound"
              /\ users' = users /\ referrals' = referrals /\ reserved' = reserved]_vars
    /\ [][\A p \in Procs :
            req[p].error = "NotFound" =>
              /\ req'[p].pc \in {"failed", "idle"}
              /\ users' # users => \E q \in Procs \ {p} : UpdatesNow(q)]_vars
    /\ [](\A p \in Procs :
            req[p].error = "NotFound" => req[p].pc = "failed" /\ req[p].target = NULLID)

\* C22 witness: a fill_user call with an unknown identifier and a filled-in
\* form has ended in NotFound.
C22_Witness ==
    \E p \in Procs :
      /\ req[p].pc = "failed" /\ req[p].error = "NotFound"
      /\ req[p].identifier = <<"z">>
      /\ Truthy(req[p].form.first_name) /\ Truthy(req[p].form.phone)

\* C23: a signup goes through screen, resolve referrer, allocate, assign code,
\* persist user, update ledger in this order and ends in exactly one of
\* Complete and Failed(kind); Failed is final and leaves no user row of the
\* signup, and the user row is inserted only after screening and referrer
\* resolution have finished.
C23_StepOrder ==
    \A p \in Procs :
      /\ req[p].new_user # NULLID =>
           (req[p].screened /\ req[p].pc \notin {"screen", "resolve", "resolve_user"})
      /\ req[p].ledger_error => req[p].new_user # NULLID
      /\ req[p].pc = "done" => req[p].error = "none"
      /\ req[p].pc = "failed" => (req[p].error # "none" /\ req[p].new_user = NULLID)

\* C24: every stored edge (r, u) joins two existing users and agrees with the
\* registry: user u has referred_by_user_id = r, so each user is the referred
\* side of at most one edge.
C24_EdgesAgreeWithRegistry ==
    /\ \A e \in referrals :
         /\ \E r \in users : r.id = e.referrer_user_id
         /\ \E u \in users : /\ u.id = e.referred_user_id
                             /\ u.referred_by_user_id = e.referrer_user_id
    /\ \A e1, e2 \in referrals :
         e1.referred_user_id = e2.referred_user_id => e1 = e2

\* C24 witness: an edge is stored while a signup that named the same referrer
\* by username is still under way.
C24_Witness ==
    /\ referrals # {}
    /\ \E p \in Procs, e \in referrals :
         /\ req[p].pc \in {"insert", "ledger"}
         /\ req[p].referred_by_id = e.referrer_user_id

\* C25: the referrer of a user existed before the user was created: for every
\* user with a referrer, referred_by_user_id is strictly less than the user's
\* id (so the referral relation has no cycle).
C25_ReferrerIsOlder ==
    \A u \in users :
      u.referred_by_user_id # NULLID =>
        /\ u.referred_by_user_id < u.id
        /\ \E r \in users : r.id = u.referred_by_user_id

\* C25 witness: a referred user whose id does not follow its referrer's
\* directly (an insert in between failed and used up an id).
C25_Witness ==
    \E u \in users :
      /\ u.referred_by_user_id # NULLID
      /\ u.id > u.referred_by_user_id + 1

\* how often x occurs in the sequence t
Count(t, x) == Cardinality({i \in DOMAIN t : t[i] = x})

\* the username a typed line stands for: its non-whitespace characters
LineName(l) == SelectSeq(l, LAMBDA c : c \notin Whitespace)

\* the names of the non-blank lines the loop has gone through so far
Processed ==
    LET names == SelectSeq([i \in DOMAIN bulk.lines |-> LineName(bulk.lines[i])],
                           LAMBDA n : n # <<>>)
    IN  SubSeq(names, 1, Len(names) - Len(bulk.usernames))

\* C26: in a bulk-add batch each non-blank line ends up in exactly one of the
\* lists added and skipped; a username enters added only with a user row of
\* that username committed by the batch; the batch stores no edge and the
\* rows it adds have no referrer.
C26_BulkLists ==
    /\ [](bulk.pc = "loop" =>
            /\ Len(bulk.added) + Len(bulk.skipped) = Len(Processed)
            /\ \A x \in {Processed[i] : i \in DOMAIN Processed} :
                 Count(Processed, x)
                 = Count(bulk.added, x) + Count(bulk.skipped, x)
                   + Count(bulk.skipped, x \o <<" (error)">>))
    /\ [][bulk.pc = "loop" =>
            /\ referrals' = referrals
            /\ \A u \in users' \ users : u.referred_by_user_id = NULLID
            /\ (bulk'.pc = "loop" /\ bulk'.added # bulk.added) =>
                 /\ Len(bulk'.added) = Len(bulk.added) + 1
                 /\ \E u \in users' \ users :
                      u.username = bulk'.added[Len(bulk'.added)]]_vars

\* C26 witness: a batch with a padded line has been gone through, with one
\* line added and one skipped.
C26_Witness ==
    /\ bulk.pc = "loop" /\ bulk.usernames = <<>>
    /\ \E i \in DOMAIN bulk.lines : bulk.lines[i] # LineName(bulk.lines[i])
    /\ bulk.added # <<>> /\ bulk.skipped # <<>>

====
